---- MODULE Spec2Model ----
(***************************************************************************)
(* Model of 201/8/Jul/implications1.cpp.  The second code block           *)
(* ("snippet 4", registered pointers) has its own specification, Spec4,    *)
(* further down.  Spec is the first code block ("snippet 3"):              *)
(* CSequence::reset_sequence and the size-change lock guards of            *)
(* mse::mstd::vector, driven by a client that makes the calls main()       *)
(* makes (lock guard, xscope_ptr_to_element, reset_sequence, clear,        *)
(* push_back, block exit) in any order the C++ scoping rules allow.        *)
(*                                                                         *)
(* The mse headers are not part of the repository.  The behaviour of the   *)
(* library calls is taken from what the source states about them (the      *)
(* comments at lines 48-50, 53-54, 78-79 of implications1.cpp).  Where the *)
(* source states nothing (a second guard on a vector that already has one) *)
(* every outcome is kept as a nondeterministic choice.                     *)
(*                                                                         *)
(* Indices: the C++ vectors are 0-based, TLA+ sequences 1-based; a pointer *)
(* item keeps the 0-based index of the call, element i is cont[o][i + 1].  *)
(***************************************************************************)
EXTENDS Integers, Sequences, FiniteSets, TLC

\* Bounds of the model.
MaxCount == 1
MaxLen == 1
MaxStack == 4

\* CSequence(2): the size v1 and v2 are constructed with.
InitialSize == 2

VARIABLES
    cont,     \* <<v1, v2>>, after line 64 the elements of `vectors`
    built,    \* line 64 executed: the CSequences are vectors.at(0), vectors.at(1)
    lockcnt,  \* live size_change_lock guards per container
    stack,    \* the live scope objects (guards, pointers), oldest first
    mode,     \* "run", "unwind" (an exception propagates), "return"
    last,     \* the last call and its outcome
    pc,                  \* snippet 4: the line main() is about to execute
    container1,          \* snippet 4: std::list<CItem> container1
    alive,               \* snippet 4: the registered objects in scope
    it,                  \* avg_word_length: position of `item` in the container
    cummulative_length,  \* avg_word_length: int cummulative_length
    num_words,           \* avg_word_length: int num_words
    caller,              \* avg_word_length: the line of the call
    out,                 \* what main() has written to std::cout
    skipped              \* a pop_back() call was left out (lines 163-166)

\* The state of the snippet-3 block and of the snippet-4 block.
vars3 == <<cont, built, lockcnt, stack, mode, last>>
vars4 == <<pc, container1, alive, it, cummulative_length, num_words, caller, out, skipped>>

vars == <<cont, built, lockcnt, stack, mode, last,
          pc, container1, alive, it, cummulative_length, num_words, caller, out, skipped>>

\* Container ids: 0 is `vectors`, 1 and 2 are the two CSequences.
VECTORS == 0
Containers == 0..2

\* struct CState: m_data is never written in the program and keeps its
\* default in every copy; m_count is the field the program changes.
CState(n) == [m_count |-> n]
CStateSet == {CState(n) : n \in 0..MaxCount}

NoVal == [m_count |-> -1]

\* Scope objects: a guard on container `on`, or a pointer to element idx of
\* container `on` (with MSE_SCOPEPOINTER_DISABLED a raw pointer: `valid` says
\* whether its target is still where it points).
LockItem(o) == [kind |-> "lock", on |-> o, idx |-> -1, valid |-> TRUE]
PtrItem(o, i) == [kind |-> "ptr", on |-> o, idx |-> i, valid |-> TRUE]

Call(op, o, res, val) ==
    [op |-> op, on |-> o, res |-> res, val |-> val]

----
\* The containers.

Exists(c, b, o) ==
    IF o = VECTORS THEN b ELSE o \in 1..Len(c)

Size(c, o) ==
    IF o = VECTORS THEN Len(c) ELSE Len(c[o])

\* Mutant: a guard locks nothing.
IsLocked_never(lk, o) == FALSE

\* Mutant: a guard on `vectors` also locks the elements of `vectors`.
IsLocked_transitive(lk, o) == lk[o] > 0 \/ (o # VECTORS /\ lk[VECTORS] > 0)

\* "locks" the specified container for the lifetime of the lock object.
IsLocked(lk, o) == lk[o] > 0

\* Pointers whose target a structural change of container o relocates or
\* destroys: those into o, and, when o is `vectors`, those into its elements.
Invalidate(stk, o) ==
    [i \in DOMAIN stk |->
        IF stk[i].kind = "ptr" /\ (stk[i].on = o \/ o = VECTORS)
        THEN [stk[i] EXCEPT !.valid = FALSE]
        ELSE stk[i]]

\* Mutant: clear() does not look at the lock.
clear_unguarded(c, lk, stk, o) ==
    [res |-> "ok",
     cont |-> IF o = VECTORS THEN <<>> ELSE [c EXCEPT ![o] = <<>>],
     stack |-> Invalidate(stk, o)]

\* vector::clear(): on a locked container throws instead.
clear(c, lk, stk, o) ==
    IF IsLocked(lk, o)
    THEN [res |-> "throws", cont |-> c, stack |-> stk]
    ELSE [res |-> "ok",
          cont |-> IF o = VECTORS THEN <<>> ELSE [c EXCEPT ![o] = <<>>],
          stack |-> Invalidate(stk, o)]

\* Mutant: push_back() does not look at the lock.
push_back_unguarded(c, lk, stk, o, x) ==
    [res |-> "ok",
     cont |-> [c EXCEPT ![o] = Append(@, x)],
     stack |-> Invalidate(stk, o)]

\* vector::push_back(x): on a locked container throws instead.
push_back(c, lk, stk, o, x) ==
    IF IsLocked(lk, o)
    THEN [res |-> "throws", cont |-> c, stack |-> stk]
    ELSE [res |-> "ok",
          cont |-> [c EXCEPT ![o] = Append(@, x)],
          stack |-> Invalidate(stk, o)]

\* What a read through pointer item p can yield: the element while the
\* pointer is valid, anything once its target was relocated or destroyed.
Target(c, p) ==
    IF p.valid /\ p.on \in 1..Len(c) /\ p.idx + 1 \in 1..Len(c[p.on])
    THEN {c[p.on][p.idx + 1]}
    ELSE CStateSet

\* Mutant: initial_state is a copy, the write does not reach the element.
IncrementCount_on_copy(c, p) == c

\* initial_state.m_count += 1 through pointer item p.
IncrementCount(c, p) ==
    IF p.valid /\ p.on \in 1..Len(c) /\ p.idx + 1 \in 1..Len(c[p.on])
    THEN [c EXCEPT ![p.on][p.idx + 1].m_count = @ + 1]
    ELSE c

----
\* The scope stack.  Scope objects are destroyed in the reverse order of
\* their declaration.  One exit step runs the destructors down to and
\* including the most recently declared guard; the closing brace of a block
\* that declared two guards (line 89) is two such steps.

LocksOn(stk, o) == {i \in DOMAIN stk : stk[i].kind = "lock" /\ stk[i].on = o}

Guards(stk) == {i \in DOMAIN stk : stk[i].kind = "lock"}

\* The guard that opens the innermost block.
TopBlock(stk) == CHOOSE m \in Guards(stk) : \A n \in Guards(stk) : n <= m

\* Mutant: a block left by an exception does not release its guards.
ReleaseFrom_not_on_unwind(lk, stk, from, md) ==
    IF md = "unwind"
    THEN lk
    ELSE [o \in Containers |->
             lk[o] - Cardinality({i \in LocksOn(stk, o) : i >= from})]

\* The destructors of the guards declared at positions from..Len(stk), run
\* when the block is left in mode md.
ReleaseFrom(lk, stk, from, md) ==
    [o \in Containers |->
        lk[o] - Cardinality({i \in LocksOn(stk, o) : i >= from})]

\* The snippet-4 block (line 92) has not been entered.
BeforeSnippet4 ==
    /\ pc = 92
    /\ container1 = <<>>
    /\ alive = {}
    /\ it = 0
    /\ cummulative_length = 0
    /\ num_words = 0
    /\ caller = 0
    /\ out = <<>>
    /\ skipped = FALSE

Init ==
    /\ cont = <<[i \in 1..InitialSize |-> CState(0)], [i \in 1..InitialSize |-> CState(0)]>>
    /\ built = FALSE
    /\ lockcnt = [o \in Containers |-> 0]
    /\ stack = <<>>
    /\ mode = "run"
    /\ last = Call("init", -1, "ok", NoVal)
    /\ BeforeSnippet4

\* The call that raised the exception a block is left by: the refused call
\* itself, or what the previous exit step of the same exception recorded.
Raised(l) == IF l.res = "throws" THEN l.op ELSE l.res

\* Mutant: a refused clear is kept and applied when the block is left.
ExitScope_applies_refused ==
    /\ stack # <<>>
    /\ LET m == TopBlock(stack)
           rest == SubSeq(stack, 1, m - 1)
       IN /\ stack' = rest
          /\ lockcnt' = ReleaseFrom(lockcnt, stack, m, mode)
          /\ mode' = "run"
          /\ last' = Call(CASE mode = "run" -> "exit"
                            [] mode = "return" -> "exit_return"
                            [] mode = "unwind" -> "exit_unwind",
                          IF mode = "unwind" THEN last.on ELSE -1,
                          IF mode = "unwind" THEN Raised(last) ELSE "ok",
                          NoVal)
    /\ cont' = IF mode = "unwind" /\ last.op = "clear" /\ last.on \in 1..Len(cont)
               THEN [cont EXCEPT ![last.on] = <<>>]
               ELSE cont
    /\ UNCHANGED built
    /\ UNCHANGED vars4

\* A closing brace (lines 62, 89), reached by falling off the end of the
\* block, by a return, or by an exception leaving the block: the scope
\* objects of the block are destroyed.  An exception is either caught by a
\* handler of the block just left or goes on to the enclosing block.  The
\* record of an exit by exception names the call that raised it and the
\* container the call was made on.
ExitScope ==
    /\ stack # <<>>
    /\ LET m == TopBlock(stack)
           rest == SubSeq(stack, 1, m - 1)
       IN /\ stack' = rest
          /\ lockcnt' = ReleaseFrom(lockcnt, stack, m, mode)
          /\ \E caught \in (IF mode = "unwind" THEN BOOLEAN ELSE {TRUE}) :
                mode' = CASE mode = "run" -> "run"
                          [] mode = "return" ->
                                IF rest = <<>> THEN "run" ELSE "return"
                          [] mode = "unwind" ->
                                IF caught THEN "run" ELSE "unwind"
          /\ last' = Call(CASE mode = "run" -> "exit"
                            [] mode = "return" -> "exit_return"
                            [] mode = "unwind" -> "exit_unwind",
                          IF mode = "unwind" THEN last.on ELSE -1,
                          IF mode = "unwind" THEN Raised(last) ELSE "ok",
                          NoVal)
    /\ UNCHANGED <<cont, built>>
    /\ UNCHANGED vars4

\* A return statement inside a block: every open block is left.
EarlyReturn ==
    /\ mode = "run"
    /\ stack # <<>>
    /\ mode' = "return"
    /\ last' = Call("return", -1, "ok", NoVal)
    /\ UNCHANGED <<cont, built, lockcnt, stack>>
    /\ UNCHANGED vars4

\* The outcomes of make_xscope_vector_size_change_lock_guard(&o).  On a
\* container without a guard it yields a guard (lines 51, 67, 76).  What it
\* does on a container that already has one the source does not say: both a
\* second guard and an exception are possible.
make_xscope_vector_size_change_lock_guard(lk, o) ==
    IF IsLocked(lk, o) THEN {"ok", "throws"} ELSE {"ok"}

\* auto lock = make_xscope_vector_size_change_lock_guard(ptr to container o).
\* A CSequence inside `vectors` is reached through a pointer obtained from
\* the guard of `vectors` (lines 70-76).
MakeLockGuard(o) ==
    /\ mode = "run"
    /\ Len(stack) < MaxStack
    /\ Exists(cont, built, o)
    /\ (built /\ o # VECTORS) =>
          \E k \in DOMAIN stack :
              stack[k].kind = "ptr" /\ stack[k].on = VECTORS /\ stack[k].idx = o - 1
    /\ \E res \in make_xscope_vector_size_change_lock_guard(lockcnt, o) :
          /\ IF res = "ok"
             THEN /\ lockcnt' = [lockcnt EXCEPT ![o] = @ + 1]
                  /\ stack' = Append(stack, LockItem(o))
                  /\ mode' = mode
             ELSE /\ UNCHANGED <<lockcnt, stack>>
                  /\ mode' = "unwind"
          /\ last' = Call("lock", o, res, NoVal)
    /\ UNCHANGED <<cont, built>>
    /\ UNCHANGED vars4

\* auto ptr = lock.xscope_ptr_to_element(i), lock a live guard on container
\* o, for an index inside the container.
PtrToElement(o, i) ==
    /\ mode = "run"
    /\ Len(stack) < MaxStack
    /\ LocksOn(stack, o) # {}
    /\ Exists(cont, built, o)
    /\ i \in 0..(Size(cont, o) - 1)
    /\ stack' = Append(stack, PtrItem(o, i))
    /\ last' = Call("ptr", o, "ok", NoVal)
    /\ UNCHANGED <<cont, built, lockcnt, mode>>
    /\ UNCHANGED vars4

\* *ptr, ptr the pointer item at position k, to a CState.
Deref(k) ==
    /\ mode = "run"
    /\ k \in DOMAIN stack
    /\ stack[k].kind = "ptr"
    /\ stack[k].on # VECTORS
    /\ \E v \in Target(cont, stack[k]) :
          last' = Call("deref", k, "ok", v)
    /\ UNCHANGED <<cont, built, lockcnt, stack, mode>>
    /\ UNCHANGED vars4

\* o.clear()
Clear(o) ==
    /\ mode = "run"
    /\ Exists(cont, built, o)
    /\ LET r == clear(cont, lockcnt, stack, o)
       IN /\ cont' = r.cont
          /\ stack' = r.stack
          /\ mode' = IF r.res = "throws" THEN "unwind" ELSE mode
          /\ last' = Call("clear", o, r.res, NoVal)
    /\ UNCHANGED <<built, lockcnt>>
    /\ UNCHANGED vars4

\* o.push_back(CState()).  The client lets a container grow to MaxLen
\* elements; a call that is refused grows nothing.
PushBack(o) ==
    /\ mode = "run"
    /\ o \in 1..Len(cont)
    /\ lockcnt[o] > 0 \/ Len(cont[o]) < MaxLen
    /\ LET r == push_back(cont, lockcnt, stack, o, CState(0))
       IN /\ cont' = r.cont
          /\ stack' = r.stack
          /\ mode' = IF r.res = "throws" THEN "unwind" ELSE mode
          /\ last' = Call("push_back", o, r.res, NoVal)
    /\ UNCHANGED <<built, lockcnt>>
    /\ UNCHANGED vars4

\* Mutant: the clear() inside reset_sequence does not look at the lock.
reset_sequence_unguarded_clear(o, k) ==
    LET r1 == clear_unguarded(cont, lockcnt, stack, o)
    IN \E x \in Target(r1.cont, r1.stack[k]) :
          LET r2 == push_back(r1.cont, lockcnt, r1.stack, o, x)
          IN IF r2.res = "throws"
             THEN /\ cont' = r1.cont
                  /\ stack' = r1.stack
                  /\ mode' = "unwind"
                  /\ last' = Call("reset_sequence", o, "throws", NoVal)
             ELSE /\ cont' = IncrementCount(r2.cont, r2.stack[k])
                  /\ stack' = r2.stack
                  /\ mode' = mode
                  /\ last' = Call("reset_sequence", o, "ok", NoVal)

\* Mutant: initial_state.m_count += 1 comes before the push_back.
reset_sequence_count_before_push(o, k) ==
    LET r1 == clear(cont, lockcnt, stack, o)
    IN IF r1.res = "throws"
       THEN /\ UNCHANGED <<cont, stack>>
            /\ mode' = "unwind"
            /\ last' = Call("reset_sequence", o, "throws", NoVal)
       ELSE LET c1 == IncrementCount(r1.cont, r1.stack[k])
            IN \E x \in Target(c1, r1.stack[k]) :
                  LET r2 == push_back(c1, lockcnt, r1.stack, o, x)
                  IN /\ cont' = r2.cont
                     /\ stack' = r2.stack
                     /\ mode' = IF r2.res = "throws" THEN "unwind" ELSE mode
                     /\ last' = Call("reset_sequence", o, r2.res, NoVal)

\* Mutant: initial_state.m_count += 1 comes first.
reset_sequence_count_first(o, k) ==
    LET c0 == IncrementCount(cont, stack[k])
        r1 == clear(c0, lockcnt, stack, o)
    IN IF r1.res = "throws"
       THEN /\ cont' = c0
            /\ stack' = stack
            /\ mode' = "unwind"
            /\ last' = Call("reset_sequence", o, "throws", NoVal)
       ELSE \E x \in Target(r1.cont, r1.stack[k]) :
               LET r2 == push_back(r1.cont, lockcnt, r1.stack, o, x)
               IN /\ cont' = r2.cont
                  /\ stack' = r2.stack
                  /\ mode' = IF r2.res = "throws" THEN "unwind" ELSE mode
                  /\ last' = Call("reset_sequence", o, r2.res, NoVal)

\* o.reset_sequence(*ptr), ptr the pointer item at position k:
\*     (*this).clear(); (*this).push_back(initial_state); initial_state.m_count += 1;
\* initial_state is a reference: it is read after the clear.
reset_sequence(o, k) ==
    LET r1 == clear(cont, lockcnt, stack, o)
    IN IF r1.res = "throws"
       THEN /\ UNCHANGED <<cont, stack>>
            /\ mode' = "unwind"
            /\ last' = Call("reset_sequence", o, "throws", NoVal)
       ELSE \E x \in Target(r1.cont, r1.stack[k]) :
               LET r2 == push_back(r1.cont, lockcnt, r1.stack, o, x)
               IN IF r2.res = "throws"
                  THEN /\ cont' = r1.cont
                       /\ stack' = r1.stack
                       /\ mode' = "unwind"
                       /\ last' = Call("reset_sequence", o, "throws", NoVal)
                  ELSE /\ cont' = IncrementCount(r2.cont, r2.stack[k])
                       /\ stack' = r2.stack
                       /\ mode' = mode
                       /\ last' = Call("reset_sequence", o, "ok", NoVal)

\* The client makes the call while m_count is below MaxCount; a call that is
\* refused counts nothing.
ResetSequence(o, k) ==
    /\ mode = "run"
    /\ o \in 1..Len(cont)
    /\ k \in DOMAIN stack
    /\ stack[k].kind = "ptr"
    /\ stack[k].on # VECTORS
    /\ lockcnt[o] > 0 \/ \A v \in Target(cont, stack[k]) : v.m_count < MaxCount
    /\ reset_sequence(o, k)
    /\ UNCHANGED <<built, lockcnt>>
    /\ UNCHANGED vars4

\* mse::mstd::vector<CSequence> vectors{ v1, v2 } (line 64): the elements
\* are copies, new containers without a guard.  v1 and v2 are not used after
\* this line, and the model keeps no second copy of them.
MakeVectors ==
    /\ mode = "run"
    /\ ~built
    /\ stack = <<>>
    /\ built' = TRUE
    /\ lockcnt' = [o \in Containers |-> 0]
    /\ last' = Call("vectors", VECTORS, "ok", NoVal)
    /\ UNCHANGED <<cont, stack, mode>>
    /\ UNCHANGED vars4

Next ==
    \/ ExitScope
    \/ EarlyReturn
    \/ \E o \in Containers : MakeLockGuard(o)
    \/ \E o \in Containers, i \in 0..(InitialSize + MaxLen) : PtrToElement(o, i)
    \/ \E k \in 1..MaxStack : Deref(k)
    \/ \E o \in Containers : Clear(o)
    \/ \E o \in Containers : PushBack(o)
    \/ \E o \in Containers, k \in 1..MaxStack : ResetSequence(o, k)
    \/ MakeVectors

Spec == Init /\ [][Next]_vars

----
(***************************************************************************)
(* Second code block of implications1.cpp ("snippet 4", lines 92-185):     *)
(* container1, a std::list of CItem, each holding a registered pointer to  *)
(* a TRegisteredObj that points to a string.  pc is the line main() is     *)
(* about to execute.  The registered objects are numbered: 1..3 are the    *)
(* elements of strings1_xsptrs, GIRAFFE and GNU the string_xsptr_reg of    *)
(* the two inner blocks; a CItem is the number of the object its pointer   *)
(* targets.  A registered object and the string it points to are declared  *)
(* and destroyed in the same block, so one number stands for both.         *)
(*                                                                         *)
(* The behaviour of a registered pointer whose target is gone is taken     *)
(* from the comment at lines 163-166, which also describes the variant of  *)
(* the program with a pop_back() call left out; the model has that variant *)
(* as a choice at each pop_back() line and records it in `skipped`.        *)
(***************************************************************************)

\* std::array<std::string, 3> strings1
NumStrings == 3

GIRAFFE == 4
GNU == 5

\* pc after an exception has left main().
Terminated == 0

\* std::string::length() of the string registered object t points to.
length(t) ==
    CASE t = 1 -> 8        \* "elephant"
      [] t = 2 -> 12       \* "hippopotamus"
      [] t = 3 -> 10       \* "rhinoceros"
      [] t = GIRAFFE -> 7  \* "giraffe"
      [] t = GNU -> 3      \* "gnu"

\* The lines of an inner block, by the registered object it declares.
Line(b) ==
    IF b = GIRAFFE
    THEN [enter |-> 147, push |-> 159, avg |-> 160, pop |-> 161, exit |-> 170, after |-> 172]
    ELSE [enter |-> 172, push |-> 176, avg |-> 177, pop |-> 178, exit |-> 179, after |-> 185]

Blocks == {GIRAFFE, GNU}

\* The statement after each call of CF::avg_word_length.
AfterCall(c) ==
    CASE c = 145 -> 147
      [] c = 160 -> 161
      [] c = 177 -> 178

\* if (item.m_string_xsptr_regptr): true for a pointer to an object in
\* scope; for a pointer whose target is gone the source does not say.
regptr_bool(al, t) == IF t \in al THEN {TRUE} ELSE BOOLEAN

\* Mutant: a registered pointer is dereferenced without a check.
regptr_deref_unchecked(al, t) == "ok"

\* *(item.m_string_xsptr_regptr): "registered pointers know when their
\* target becomes no longer valid and will throw an exception if you try to
\* access the no longer valid target".
regptr_deref(al, t) == IF t \in al THEN "ok" ELSE "throws"

\* Mutant: the item at the front is removed.
pop_front(c) == Tail(c)

\* std::list::pop_back()
pop_back(c) == SubSeq(c, 1, Len(c) - 1)

\* double retval = double(cummulative_length);
\* if (1 <= num_words) { retval /= double(num_words); }
\* The quotient is kept as the pair of its terms.
retval(sum, words) == <<sum, IF 1 <= words THEN words ELSE 1>>

\* The snippet-3 block has been left: its locals are gone.
AfterSnippet3 ==
    /\ cont = <<>>
    /\ built = FALSE
    /\ lockcnt = [o \in Containers |-> 0]
    /\ stack = <<>>
    /\ mode = "run"
    /\ last = Call("exit", -1, "ok", NoVal)

Init4 ==
    /\ AfterSnippet3
    /\ BeforeSnippet4

\* Lines 105-138: strings1, strings1_xsptrs, container1.
Declare ==
    /\ pc = 92
    /\ alive' = 1..NumStrings
    /\ container1' = <<>>
    /\ pc' = 139
    /\ UNCHANGED <<it, cummulative_length, num_words, caller, out, skipped>>
    /\ UNCHANGED vars3

\* Lines 139-143, one iteration: container1.push_back(CItem(&string_xsptr)).
FillContainer ==
    /\ pc = 139
    /\ Len(container1) < NumStrings
    /\ container1' = Append(container1, Len(container1) + 1)
    /\ UNCHANGED <<pc, alive, it, cummulative_length, num_words, caller, out, skipped>>
    /\ UNCHANGED vars3

\* Line 139, the range is exhausted.
FillDone ==
    /\ pc = 139
    /\ Len(container1) = NumStrings
    /\ pc' = 145
    /\ UNCHANGED <<container1, alive, it, cummulative_length, num_words, caller, out, skipped>>
    /\ UNCHANGED vars3

\* CF::avg_word_length(container1) called at lines 145, 160, 177; lines
\* 122-123.
CallAvg ==
    /\ pc \in {145, 160, 177}
    /\ caller' = pc
    /\ it' = 1
    /\ cummulative_length' = 0
    /\ num_words' = 0
    /\ pc' = 124
    /\ UNCHANGED <<container1, alive, out, skipped>>
    /\ UNCHANGED vars3

\* Line 124: for (const auto& item : container)
AvgNext ==
    /\ pc = 124
    /\ pc' = IF it <= Len(container1) THEN 125 ELSE 130
    /\ UNCHANGED <<container1, alive, it, cummulative_length, num_words, caller, out, skipped>>
    /\ UNCHANGED vars3

\* Line 125: if (item.m_string_xsptr_regptr)
AvgTest ==
    /\ pc = 125
    /\ \E b \in regptr_bool(alive, container1[it]) :
          IF b
          THEN pc' = 126 /\ it' = it
          ELSE pc' = 124 /\ it' = it + 1
    /\ UNCHANGED <<container1, alive, cummulative_length, num_words, caller, out, skipped>>
    /\ UNCHANGED vars3

\* Line 126: cummulative_length += (*(item.m_string_xsptr_regptr))->length();
\* An exception leaves avg_word_length and main(), which has no handler.
AvgAccess ==
    /\ pc = 126
    /\ IF regptr_deref(alive, container1[it]) = "ok"
       THEN /\ cummulative_length' = cummulative_length + length(container1[it])
            /\ pc' = 127
       ELSE /\ cummulative_length' = cummulative_length
            /\ pc' = Terminated
    /\ UNCHANGED <<container1, alive, it, num_words, caller, out, skipped>>
    /\ UNCHANGED vars3

\* Line 127: num_words += 1; and on to the next item.
AvgCount ==
    /\ pc = 127
    /\ num_words' = num_words + 1
    /\ it' = it + 1
    /\ pc' = 124
    /\ UNCHANGED <<container1, alive, cummulative_length, caller, out, skipped>>
    /\ UNCHANGED vars3

\* Lines 130-134 and the std::cout of the caller.
AvgReturn ==
    /\ pc = 130
    /\ out' = Append(out, retval(cummulative_length, num_words))
    /\ pc' = AfterCall(caller)
    /\ UNCHANGED <<container1, alive, it, cummulative_length, num_words, caller, skipped>>
    /\ UNCHANGED vars3

\* Lines 147-157, 172-175: l_string and string_xsptr_reg of block b.
EnterBlock(b) ==
    /\ pc = Line(b).enter
    /\ alive' = alive \cup {b}
    /\ pc' = Line(b).push
    /\ UNCHANGED <<container1, it, cummulative_length, num_words, caller, out, skipped>>
    /\ UNCHANGED vars3

\* Lines 159, 176: container1.push_back(CItem(&string_xsptr_reg)).
Container1PushBack(b) ==
    /\ pc = Line(b).push
    /\ container1' = Append(container1, b)
    /\ pc' = Line(b).avg
    /\ UNCHANGED <<alive, it, cummulative_length, num_words, caller, out, skipped>>
    /\ UNCHANGED vars3

\* Lines 161, 178: container1.pop_back().
Container1PopBack(b) ==
    /\ pc = Line(b).pop
    /\ container1' = pop_back(container1)
    /\ pc' = Line(b).exit
    /\ UNCHANGED <<alive, it, cummulative_length, num_words, caller, out, skipped>>
    /\ UNCHANGED vars3

\* The variant of lines 163-166: "if we had forgotten to do the popback()
\* call".
SkipPopBack(b) ==
    /\ pc = Line(b).pop
    /\ skipped' = TRUE
    /\ pc' = Line(b).exit
    /\ UNCHANGED <<container1, alive, it, cummulative_length, num_words, caller, out>>
    /\ UNCHANGED vars3

\* Lines 170, 179: the closing brace of block b destroys string_xsptr_reg
\* and l_string.
LeaveBlock(b) ==
    /\ pc = Line(b).exit
    /\ alive' = alive \ {b}
    /\ pc' = Line(b).after
    /\ UNCHANGED <<container1, it, cummulative_length, num_words, caller, out, skipped>>
    /\ UNCHANGED vars3

\* Line 185: the closing brace of the snippet-4 block destroys container1,
\* strings1_xsptrs and strings1; line 187 follows.
LeaveSnippet4 ==
    /\ pc = 185
    /\ container1' = <<>>
    /\ alive' = {}
    /\ pc' = 187
    /\ UNCHANGED <<it, cummulative_length, num_words, caller, out, skipped>>
    /\ UNCHANGED vars3

Next4 ==
    \/ Declare
    \/ FillContainer
    \/ FillDone
    \/ CallAvg
    \/ AvgNext
    \/ AvgTest
    \/ AvgAccess
    \/ AvgCount
    \/ AvgReturn
    \/ \E b \in Blocks : EnterBlock(b)
    \/ \E b \in Blocks : Container1PushBack(b)
    \/ \E b \in Blocks : Container1PopBack(b)
    \/ \E b \in Blocks : SkipPopBack(b)
    \/ \E b \in Blocks : LeaveBlock(b)
    \/ LeaveSnippet4

Spec4 == Init4 /\ [][Next4]_vars

----
\* The calls that change the size of a container or relocate its elements.
StructuralOps == {"clear", "push_back", "reset_sequence"}

C3_PointerReadsElement ==
    /\ \A k \in DOMAIN stack :
          stack[k].kind = "ptr" =>
              /\ \E g \in LocksOn(stack, stack[k].on) : g < k
              /\ stack[k].valid
              /\ Exists(cont, built, stack[k].on)
              /\ stack[k].idx \in 0..(Size(cont, stack[k].on) - 1)
              /\ stack[k].on # VECTORS =>
                    Target(cont, stack[k]) = {cont[stack[k].on][stack[k].idx + 1]}
    /\ last.op = "deref" =>
          /\ last.on \in DOMAIN stack
          /\ stack[last.on].kind = "ptr"
          /\ last.val = cont[stack[last.on].on][stack[last.on].idx + 1]

\* A dereference returned the value reset_sequence wrote through a pointer
\* to the same element.
C3_Witness ==
    /\ last.op = "deref"
    /\ last.val = CState(1)
    /\ LocksOn(stack, stack[last.on].on) # {}

\* C8: the lock count of every container is the number of its live guards
\* at every point, whichever way blocks were left (closing brace, return,
\* exception), so that no container is locked once every block is left.
C8_GuardsReleasedOnEveryExit ==
    /\ \A o \in Containers : lockcnt[o] = Cardinality(LocksOn(stack, o))
    /\ stack = <<>> => lockcnt = [o \in Containers |-> 0]

\* An exception raised inside a block with a guard has left every block.
C8_Witness ==
    /\ last.op = "exit_unwind"
    /\ stack = <<>>
    /\ lockcnt = [o \in Containers |-> 0]

\* C9: a structural-mutation call that throws leaves the containers, the
\* lock counts and the live pointers as they were, and the exception is
\* raised to the caller.
C9_RefusedCallChangesNothing ==
    [][(last'.op \in StructuralOps /\ last'.res = "throws")
          => /\ cont' = cont
             /\ lockcnt' = lockcnt
             /\ stack' = stack
             /\ built' = built
             /\ mode' = "unwind"]_vars

\* A push_back was refused while a pointer into the container was alive,
\* and the container still has the elements it was constructed with.
C9_Witness ==
    /\ last.op = "push_back"
    /\ last.res = "throws"
    /\ \E k \in DOMAIN stack : stack[k].kind = "ptr" /\ stack[k].on = last.on
    /\ cont[last.on] = [i \in 1..InitialSize |-> CState(0)]

\* C10: a guard request or a structural mutation on an element of `vectors`
\* that has no guard of its own succeeds, whatever guards `vectors` and the
\* other element have.
C10_LocksArePerContainer ==
    [][(/\ built
        /\ last'.op \in StructuralOps \cup {"lock"}
        /\ last'.on \in 1..2
        /\ LocksOn(stack, last'.on) = {})
          => last'.res = "ok"]_vars

\* reset_sequence on vectors.at(1) succeeded while `vectors` and
\* vectors.at(0) both had a guard.
C10_Witness ==
    /\ built
    /\ LocksOn(stack, VECTORS) # {}
    /\ LocksOn(stack, 1) # {}
    /\ LocksOn(stack, 2) = {}
    /\ last.op = "reset_sequence"
    /\ last.on = 2
    /\ last.res = "ok"

\* The steps that leave a block.
ExitOps == {"exit", "exit_return", "exit_unwind"}

\* C11: a pointer obtained from a guard stays as it is in every step that
\* does not end its scope, whatever call the step makes: its container keeps
\* its size and the pointer keeps pointing inside it; an attempted clear on
\* a container with a live guard changes no container, whatever it returns;
\* and the step that destroys a guard leaves every container's elements as
\* they were.
C11_PointerValidUntilEndOfScope ==
    [][/\ \A k \in DOMAIN stack :
             (stack[k].kind = "ptr" /\ k \in DOMAIN stack') =>
                 /\ stack'[k] = stack[k]
                 /\ Exists(cont', built', stack[k].on)
                 /\ Size(cont', stack[k].on) = Size(cont, stack[k].on)
                 /\ stack[k].idx \in 0..(Size(cont', stack[k].on) - 1)
       /\ (last'.op = "clear" /\ LocksOn(stack, last'.on) # {}) => cont' = cont
       /\ last'.op \in ExitOps => cont' = cont]_vars

\* A clear was attempted on a CSequence while a pointer to its second
\* element was alive; the CSequence has its two elements and the pointer is
\* still valid.
C11_Witness ==
    /\ last.op = "clear"
    /\ last.on \in 1..2
    /\ Len(cont[last.on]) = InitialSize
    /\ \E k \in DOMAIN stack :
          /\ stack[k].kind = "ptr"
          /\ stack[k].on = last.on
          /\ stack[k].idx = 1
          /\ stack[k].valid

\* C12: a guard restricts the structure of its container, not the values of
\* the elements.  A reset_sequence on a container without a guard, given a
\* pointer to an element of a guarded container, is not refused: the write
\* through the pointer (m_count += 1) adds one to the element in the guarded
\* container, and every live pointer to that index reads the new value.
C12_LockRestrictsStructureOnly ==
    [][(last'.op = "reset_sequence" /\ LocksOn(stack, last'.on) = {}) =>
          /\ last'.res = "ok"
          /\ \E k \in DOMAIN stack :
                /\ stack[k].kind = "ptr"
                /\ stack[k].on \in 1..2
                /\ LocksOn(stack, stack[k].on) # {}
                /\ LET s == stack[k].on
                       i == stack[k].idx + 1
                   IN /\ cont'[s][i].m_count = cont[s][i].m_count + 1
                      /\ \A j \in DOMAIN stack' :
                            (/\ stack'[j].kind = "ptr"
                             /\ stack'[j].on = s
                             /\ stack'[j].idx = stack[k].idx)
                                => Target(cont', stack'[j]) = {cont'[s][i]}]_vars

\* Two pointers to the same index of a guarded container are alive, a
\* reset_sequence has written through one of them, and both read the
\* written value.
C12_Witness ==
    /\ last.op = "reset_sequence"
    /\ last.res = "ok"
    /\ \E j, k \in DOMAIN stack :
          /\ j # k
          /\ stack[j].kind = "ptr"
          /\ stack[k].kind = "ptr"
          /\ stack[j].on \in 1..2
          /\ stack[j].on = stack[k].on
          /\ stack[j].idx = stack[k].idx
          /\ LocksOn(stack, stack[j].on) # {}
          /\ cont[stack[j].on][stack[j].idx + 1] = CState(1)
          /\ Target(cont, stack[j]) = {CState(1)}
          /\ Target(cont, stack[k]) = {CState(1)}

\* C14: a container changes only in the step of a call that succeeds, and
\* its size only in the step of a successful structural call made on it (or
\* on `vectors`, for an element of `vectors`) while it has no guard.  A
\* refused call changes nothing at the call, and no later step that is not
\* itself a successful call (a block exit that destroys the guard, a
\* return, a new guard, a pointer, a dereference) applies it: from the step
\* that takes a guard to the step that destroys it the container keeps its
\* size and the positions of its elements.
C14_RefusedCallNeverAppliedLater ==
    [][/\ cont' # cont =>
             (last'.op \in StructuralOps /\ last'.res = "ok")
       /\ \A o \in Containers :
             (/\ Exists(cont, built, o)
              /\ \/ ~Exists(cont', built', o)
                 \/ Size(cont', o) # Size(cont, o))
                => /\ last'.op \in StructuralOps
                   /\ last'.res = "ok"
                   /\ last'.on \in {o, VECTORS}
                   /\ LocksOn(stack, o) = {}]_vars

\* A structural call on a CSequence was refused, the exception has left the
\* block and destroyed the guards, and the CSequence has the two elements
\* it had.
C14_Witness ==
    /\ last.op = "exit_unwind"
    /\ last.res \in StructuralOps
    /\ last.on \in 1..2
    /\ mode = "run"
    /\ LocksOn(stack, last.on) = {}
    /\ Len(cont[last.on]) = InitialSize

\* C15: reset_sequence called on a container that has a live guard is
\* refused at its clear() step, whichever pointer it is given, a pointer to
\* an element of that same container included: the containers keep their
\* elements and every m_count, nothing is pushed, and the pointers stay
\* valid and keep reading the elements they point to.
C15_SelfResetFailsAtClear ==
    [][(last'.op = "reset_sequence" /\ LocksOn(stack, last'.on) # {}) =>
          /\ last'.res = "throws"
          /\ cont' = cont
          /\ stack' = stack
          /\ \A k \in DOMAIN stack' :
                (stack'[k].kind = "ptr" /\ stack'[k].on = last'.on) =>
                    /\ stack'[k].valid
                    /\ Target(cont', stack'[k]) = {cont[last'.on][stack'[k].idx + 1]}]_vars

\* reset_sequence was refused on a guarded CSequence while every live
\* pointer to a CState, the one passed included, pointed into that same
\* CSequence, which still has its two elements with m_count 0.
C15_Witness ==
    /\ last.op = "reset_sequence"
    /\ last.res = "throws"
    /\ last.on \in 1..2
    /\ LocksOn(stack, last.on) # {}
    /\ \E k \in DOMAIN stack : stack[k].kind = "ptr" /\ stack[k].on = last.on
    /\ \A k \in DOMAIN stack :
          (stack[k].kind = "ptr" /\ stack[k].on # VECTORS) => stack[k].on = last.on
    /\ cont[last.on] = [i \in 1..InitialSize |-> CState(0)]

\* C16: a reset_sequence that succeeds on container v, given a pointer to
\* element i of another container s, leaves v with exactly one element, the
\* value element i had before the call (the copy is made before the
\* increment), adds exactly 1 to the m_count of element i, and changes
\* nothing else: s has a live guard, keeps its size, and its other elements
\* keep their values.
C16_ResetSequenceEffect ==
    [][(last'.op = "reset_sequence" /\ last'.res = "ok") =>
          \E k \in DOMAIN stack :
             /\ stack[k].kind = "ptr"
             /\ stack[k].on \in (1..2) \ {last'.on}
             /\ LocksOn(stack, stack[k].on) # {}
             /\ LocksOn(stack, last'.on) = {}
             /\ LET v == last'.on
                    s == stack[k].on
                    i == stack[k].idx + 1
                IN /\ cont'[v] = <<cont[s][i]>>
                   /\ cont'[s][i].m_count = cont[s][i].m_count + 1
                   /\ Len(cont'[s]) = Len(cont[s])
                   /\ \A n \in 1..Len(cont[s]) : n # i => cont'[s][n] = cont[s][n]
                   /\ Len(cont') = Len(cont)]_vars

\* v2.reset_sequence(*v1_0_xsptr) as at line 57: v2 holds one element with
\* the m_count 0 of before the call, the element of v1 has m_count 1, and v1
\* has its guard and its two elements.
C16_Witness ==
    /\ last.op = "reset_sequence"
    /\ last.res = "ok"
    /\ last.on = 2
    /\ ~built
    /\ cont[2] = <<CState(0)>>
    /\ cont[1] = <<CState(1), CState(0)>>
    /\ LocksOn(stack, 1) # {}

\* C13: an access (line 126) through a registered pointer whose target is
\* no longer in scope throws: the exception leaves main(), no length is
\* read from the destroyed object, nothing is added to the sums and nothing
\* is printed.  This holds for an item left in container1 by a forgotten
\* pop_back() as for any other.
C13_AccessToDeadTargetThrows ==
    [][(pc = 126 /\ container1[it] \notin alive) =>
          /\ pc' = Terminated
          /\ cummulative_length' = cummulative_length
          /\ num_words' = num_words
          /\ out' = out]_vars

\* The pop_back() of the giraffe block was left out, the block was left,
\* and the avg_word_length call of the gnu block threw at the item whose
\* target is gone.
C13_Witness ==
    /\ pc = Terminated
    /\ skipped
    /\ it \in DOMAIN container1
    /\ container1[it] = GIRAFFE
    /\ GIRAFFE \notin alive
    /\ caller = 177

\* C17: in the program as written (no pop_back() left out) every item of
\* container1 targets an object that is in scope, at every line, the calls
\* of avg_word_length and the block exits included; and at the closing
\* brace of each inner block and after it container1 holds exactly the
\* three items inserted first, in their order.
C17_TemporaryItemsRemoved ==
    ~skipped =>
        /\ \A i \in DOMAIN container1 : container1[i] \in alive
        /\ pc \in {170, 172, 179, 185} => container1 = <<1, 2, 3>>

\* The program as written has left both inner blocks and printed its three
\* averages: 30/3, 37/4, 33/4.
C17_Witness ==
    /\ pc = 185
    /\ ~skipped
    /\ container1 = <<1, 2, 3>>
    /\ alive = 1..NumStrings
    /\ out = << <<30, 3>>, <<37, 4>>, <<33, 4>> >>
====
